---- MODULE Spec2Model ----
(***************************************************************************)
(* Model of RoboticsProject.py: a planar two-link arm driven by dialogs.   *)
(*                                                                         *)
(* Number representation.  The program computes in floats; the model       *)
(* computes the same quantities exactly, over the integers:                *)
(*   - every number typed by the user is an integer (the input alphabet    *)
(*     has digits and a minus sign only);                                  *)
(*   - curr_x, curr_y, dx, dy and the sample points of check_path can be   *)
(*     fractions with denominator 40, so they are held in "ticks" of 1/40  *)
(*     (Steps ticks = 1 unit);                                             *)
(*   - dist = sqrt(x^2 + y^2) is never formed: dist is compared with a     *)
(*     bound b by comparing x^2 + y^2 with b^2, taking the sign of b into  *)
(*     account;                                                            *)
(*   - the elbow l1*(cos(theta +- alpha), sin(theta +- alpha)) is held as  *)
(*     numbers (a + b*sqrt(rad)) / den, obtained with                      *)
(*       cos(theta) = x/dist, sin(theta) = y/dist,                         *)
(*       cos(alpha) = cos_angle, sin(alpha) = sqrt(1 - cos_angle^2).       *)
(* Rounding.  A float computed from whole numbers through k/8 fractions is  *)
(* exact, and so is every comparison made on it.  A float computed through *)
(* other fractions of 40 (an inexact delta accumulated by curr_x += dx, a   *)
(* sample x1 + (x2 - x1) * t with t = i/40 inexact) carries a rounding      *)
(* error far smaller than a tick.  It decides a comparison only where the   *)
(* exact values tie, and there the comparison can fall either way.  Such a  *)
(* value is the exact value together with the sign e of its error:         *)
(* e = -1 (computed distance just below), 0 (exact), 1 (just above).       *)
(* drift is that sign for the accumulated position (curr_x, curr_y).       *)
(***************************************************************************)
(***************************************************************************)
EXTENDS Integers, Sequences, FiniteSets, TLC

VARIABLES pc, L1, L2, is_left, curr_x, curr_y, drift, res, target_str, nx, ny,
          dx, dy, iter, poses, outcome, call, ret

vars == <<pc, L1, L2, is_left, curr_x, curr_y, drift, res, target_str, nx, ny,
          dx, dy, iter, poses, outcome, call, ret>>

(* ---------------------------------------------------------------- bounds *)

\* Lengths typed at setup range over -1 .. MaxLen (non-positive ones included).
MaxLen == 3
\* Coordinates typed at setup and in the movement loop range over -MaxCoord .. MaxCoord.
MaxCoord == 2
\* inverse_kinematics alone: lengths -1 .. MaxLenIK, coordinates within MaxCoordIK.
MaxLenIK == 3
MaxCoordIK == 5
\* check_path alone: lengths 0 .. MaxLenPath, coordinates within MaxCoordPath.
MaxLenPath == 3
MaxCoordPath == 3

(* ------------------------------------------------------ program constants *)

\* steps = 40 in check_path and in the animation.
Steps == 40
\* float(... or 200), float(... or 150): the defaults of the setup dialogs.
DefaultL1 == 200
DefaultL2 == 150
DefaultStart == 150

(* ---------------------------------------------------------------- strings *)

\* A string is a sequence of one-character strings.
Digits == <<"0", "1", "2", "3", "4", "5", "6", "7", "8", "9">>

IsDigit(c) == \E d \in 1..10 : Digits[d] = c

DigitVal(c) == (CHOOSE d \in 1..10 : Digits[d] = c) - 1

RECURSIVE NatStr(_)
NatStr(n) == IF n < 10 THEN <<Digits[n + 1]>>
             ELSE NatStr(n \div 10) \o <<Digits[(n % 10) + 1]>>

\* The decimal text a user types for the integer n.
Str(n) == IF n < 0 THEN <<"-">> \o NatStr(0 - n) ELSE NatStr(n)

RECURSIVE split_from(_, _, _)
split_from(s, k, cur) ==
    IF k > Len(s) THEN <<cur>>
    ELSE IF s[k] = "," THEN <<cur>> \o split_from(s, k + 1, <<>>)
    ELSE split_from(s, k + 1, Append(cur, s[k]))

\* target_str.split(',')
split(s) == split_from(s, 1, <<>>)

Unsigned(s) == IF s # <<>> /\ Head(s) = "-" THEN Tail(s) ELSE s

\* float(s) raises ValueError: over the input alphabet, s is not an optional
\* minus sign followed by one or more digits.
ValueError(s) == \/ Unsigned(s) = <<>>
                 \/ \E k \in 1..Len(Unsigned(s)) : ~IsDigit(Unsigned(s)[k])

RECURSIVE NatVal(_)
NatVal(s) == IF s = <<>> THEN 0
             ELSE 10 * NatVal(SubSeq(s, 1, Len(s) - 1)) + DigitVal(s[Len(s)])

\* float(s), for a string on which it does not raise.
float(s) == IF Head(s) = "-" THEN 0 - NatVal(Tail(s)) ELSE NatVal(s)

\* float(askstring(...) or default): an empty answer (or Cancel, None)
\* takes the default.
float_or(s, default) == IF s = <<>> THEN default ELSE float(s)

(* ------------------------------------------------------------- arithmetic *)

abs(n) == IF n < 0 THEN 0 - n ELSE n

\* The signs a rounding error can have.
Signs == {0 - 1, 0, 1}

\* sqrt(d2) > b and sqrt(d2) < b as computed, for integers d2 >= 0 and b,
\* where the computed square root carries a rounding error of sign e.
SqrtGT(d2, b, e) == b < 0 \/ d2 > b * b \/ (d2 = b * b /\ e > 0)
SqrtLT(d2, b, e) == b > 0 /\ (d2 < b * b \/ (d2 = b * b /\ e < 0))

(* ----------------------------------------------------- inverse_kinematics *)

\* The results of a call: None, an uncaught exception, or the elbow.
None == [tag |-> "None"]
ZeroDivisionError == [tag |-> "ZeroDivisionError"]

\* Line 26: dist > (l1 + l2) or dist < abs(l1 - l2) or dist == 0.
\* Line 26 with the outer boundary excluded (dist >= l1 + l2).
OutOfRange_strict(x, y, l1, l2, e) ==
    LET d2 == x * x + y * y
    IN  \/ SqrtGT(d2, l1 + l2, e) \/ d2 = (l1 + l2) * (l1 + l2)
        \/ SqrtLT(d2, abs(l1 - l2), e)
        \/ (d2 = 0 /\ e = 0)

\* Line 26 without the test of the inner radius.
OutOfRange_noinner(x, y, l1, l2, e) ==
    LET d2 == x * x + y * y
    IN  \/ SqrtGT(d2, l1 + l2, e)
        \/ (d2 = 0 /\ e = 0)

\* Line 26.  (x, y) carries a rounding error of sign e; a computed distance is
\* 0 only if it is exactly 0.
OutOfRange(x, y, l1, l2, e) ==
    LET d2 == x * x + y * y
    IN  \/ SqrtGT(d2, l1 + l2, e)
        \/ SqrtLT(d2, abs(l1 - l2), e)
        \/ (d2 = 0 /\ e = 0)

\* Line 31 with the two link lengths exchanged.
cos_num_swapped(x, y, l1, l2) == l2 * l2 + (x * x + y * y) - l1 * l1

\* Line 31: cos_angle = cos_num / (2 * l1 * dist).
cos_num(x, y, l1, l2) == l1 * l1 + (x * x + y * y) - l2 * l2

\* Lines 36-47.  With dist^2 = d2 and cos_angle = k / (2*l1*dist):
\*   sin(alpha) = sqrt(1 - cos_angle^2) = sqrt(rad) / (2*l1*dist),
\*     rad = 4*l1^2*d2 - k^2 = ((l1+l2)^2 - d2) * (d2 - (l1-l2)^2) = rad_p * rad_q
\*   elbow_x = l1*cos(theta +- alpha) = (x*k -+ y*sqrt(rad)) / (2*d2)
\*   elbow_y = l1*sin(theta +- alpha) = (y*k +- x*sqrt(rad)) / (2*d2)
\* the upper sign for left_mode.  Each coordinate is (a + b*sqrt(rad)) / den;
\* rad is kept as its two factors.  Past line 26 the quotient of line 31 lies
\* in [-1, 1] (rad_p >= 0 and rad_q >= 0), so the clamp of line 34 leaves it
\* as it is.  For a point with a rounding error the elbow is that of the exact
\* point (within rounding of the computed one); den = 0 marks the elbow of a
\* point that is the origin but for its rounding error.
elbow(x, y, l1, l2, left_mode) ==
    LET d2 == x * x + y * y
        k == cos_num(x, y, l1, l2)
        s == IF left_mode THEN 1 ELSE 0 - 1
    IN  [tag |-> "elbow",
         elbow_x |-> [a |-> x * k, b |-> 0 - s * y],
         elbow_y |-> [a |-> y * k, b |-> s * x],
         rad_p |-> (l1 + l2) * (l1 + l2) - d2,
         rad_q |-> d2 - (l1 - l2) * (l1 - l2),
         den |-> 2 * d2]

inverse_kinematics(x, y, l1, l2, left_mode, e) ==
    IF OutOfRange(x, y, l1, l2, e) THEN None
    ELSE IF l1 = 0 THEN ZeroDivisionError   \* line 31 divides by 2 * l1 * dist
    ELSE elbow(x, y, l1, l2, left_mode)

(* ------------------------------------------------------------- check_path *)

\* Line 63 without the margin (dist < min_r), and with the margin added
\* instead of subtracted (dist < min_r + 1).
InForbidden_nomargin(px, py, min_r, e) == SqrtLT(px * px + py * py, min_r, e)
InForbidden_plus(px, py, min_r, e) == SqrtLT(px * px + py * py, min_r + Steps, e)

\* Line 63: math.sqrt(px**2 + py**2) < min_r - 1, in ticks.
InForbidden(px, py, min_r, e) == SqrtLT(px * px + py * py, min_r - Steps, e)

\* Lines 58-61: t = i / steps is exact when i is a multiple of 5 (k/8), and
\* so is the sample; any other sample carries a rounding error of sign e.
SampleError(i, e) == IF i % 5 = 0 THEN 0 ELSE e

\* Lines 57-65: the loop from sample i on.  All arguments are in ticks; the
\* end points are whole units, so (x2 - x1) * i is a multiple of Steps.
RECURSIVE check_path_from(_, _, _, _, _, _, _)
check_path_from(i, x1, y1, x2, y2, min_r, e) ==
    IF i > Steps THEN TRUE
    ELSE LET px == x1 + ((x2 - x1) * i) \div Steps
             py == y1 + ((y2 - y1) * i) \div Steps
         IN  IF InForbidden(px, py, min_r, SampleError(i, e)) THEN FALSE
             ELSE check_path_from(i + 1, x1, y1, x2, y2, min_r, e)

check_path(x1, y1, x2, y2, l1, l2, e) ==
    check_path_from(0, x1, y1, x2, y2, abs(l1 - l2), e)

(* ----------------------------------------------------------------- inputs *)

\* What the user may type in a setup dialog: nothing (or Cancel), text that
\* is no number, or an integer.
LengthStrings == {<<>>, <<"x">>} \cup {Str(n) : n \in (0 - 1)..MaxLen}
CoordStrings == {<<>>, <<"x">>} \cup {Str(n) : n \in (0 - MaxCoord)..MaxCoord}

\* What the user may type in the movement dialog: nothing (or Cancel), a
\* target "x,y", or one of a few other texts.
OtherStrings == { <<"2">>, <<"x">>, <<"-">>, <<",">>,
                  <<"1", ",">>, <<",", "1">>,
                  <<"x", ",", "1">>, <<"1", ",", "x">>,
                  <<"1", ",", "2", ",", "0">>, <<"1", ",", "2", ",", "x">> }
TargetStrings ==
    {<<>>} \cup OtherStrings
    \cup {Str(a) \o <<",">> \o Str(b) :
            a \in (0 - MaxCoord)..MaxCoord, b \in (0 - MaxCoord)..MaxCoord}

(* ------------------------------------------------------------------- main *)

Idle == [tag |-> "idle"]
NoCall == [fn |-> "none"]

\* The state as main() starts: the dialogs of section 1 are about to be shown.
\* Locals not yet assigned hold 0 / FALSE / None / "".
Init ==
    /\ pc = "setup"
    /\ L1 = 0 /\ L2 = 0 /\ is_left = FALSE
    /\ curr_x = 0 /\ curr_y = 0 /\ drift = 0
    /\ res = None
    /\ target_str = <<>>
    /\ nx = 0 /\ ny = 0 /\ dx = 0 /\ dy = 0
    /\ iter = 0 /\ poses = 0
    /\ outcome = "none"
    /\ call = NoCall /\ ret = Idle

\* Lines 80-128: the setup dialogs and the starting position.
Setup ==
    /\ pc = "setup"
    /\ \E s1 \in LengthStrings, s2 \in LengthStrings, left \in BOOLEAN,
          sx \in CoordStrings, sy \in CoordStrings :
         IF \E s \in {s1, s2, sx, sy} : s # <<>> /\ ValueError(s)
         THEN \* except (ValueError, TypeError): return
              /\ pc' = "closed"
              /\ outcome' = "ValueError"
              /\ UNCHANGED <<L1, L2, is_left, curr_x, curr_y, drift, res>>
         ELSE LET l1 == float_or(s1, DefaultL1)
                  l2 == float_or(s2, DefaultL2)
                  start_x == float_or(sx, DefaultStart)
                  start_y == float_or(sy, DefaultStart)
                  r == inverse_kinematics(start_x, start_y, l1, l2, left, 0)
              IN  /\ L1' = l1 /\ L2' = l2 /\ is_left' = left
                  /\ IF r = ZeroDivisionError
                     THEN /\ pc' = "crashed"
                          /\ outcome' = "ZeroDivisionError"
                          /\ UNCHANGED <<curr_x, curr_y, drift, res>>
                     ELSE IF r = None
                     THEN \* "The starting point is impossible!"
                          /\ pc' = "closed"
                          /\ outcome' = "StartImpossible"
                          /\ res' = r
                          /\ UNCHANGED <<curr_x, curr_y, drift>>
                     ELSE /\ pc' = "prompt"
                          /\ outcome' = "Started"
                          /\ res' = r
                          /\ curr_x' = start_x * Steps
                          /\ curr_y' = start_y * Steps
                          /\ drift' = 0
    /\ UNCHANGED <<target_str, nx, ny, dx, dy, iter, poses, call, ret>>

\* Between two passes of the movement loop the locals target_str, nx, ny, dx,
\* dy, the loop counter and the pose count are dead: each is assigned again
\* before it is read.  They are cleared whenever control returns to line 132,
\* so that states differing only in dead locals coincide; outcome records the
\* dialog shown last.
BackToPrompt(what) ==
    /\ pc' = "prompt"
    /\ outcome' = what
    /\ target_str' = <<>>
    /\ nx' = 0 /\ ny' = 0 /\ dx' = 0 /\ dy' = 0 /\ iter' = 0 /\ poses' = 0

\* A rejection that commits the move all the same.
Reject_commits(x, y, why) ==
    /\ BackToPrompt(why)
    /\ curr_x' = x * Steps /\ curr_y' = y * Steps
    /\ UNCHANGED <<L1, L2, is_left, drift, res>>

\* Lines 141-142 and 146-147, for the target (x, y): showerror(...); continue.
Reject(x, y, why) ==
    /\ BackToPrompt(why)
    /\ UNCHANGED <<L1, L2, is_left, curr_x, curr_y, drift, res>>

\* Lines 181-182: except ValueError: showerror("Incorrect format! ...").
FormatError ==
    /\ BackToPrompt("IncorrectFormat")
    /\ UNCHANGED <<L1, L2, is_left, curr_x, curr_y, drift, res>>

\* An exception that no handler of main() catches ends the program.
Uncaught(e) ==
    /\ pc' = "crashed"
    /\ outcome' = e
    /\ UNCHANGED <<L1, L2, is_left, curr_x, curr_y, drift, res, target_str,
                   nx, ny, dx, dy, iter, poses>>

\* Lines 150-157: the move is accepted; the per-step deltas, in ticks.
Begin(x, y) ==
    /\ pc' = "animate"
    /\ outcome' = "Moving"
    /\ target_str' = <<>>
    /\ nx' = x /\ ny' = y
    /\ dx' = (x * Steps - curr_x) \div Steps
    /\ dy' = (y * Steps - curr_y) \div Steps
    /\ iter' = 0 /\ poses' = 0
    /\ UNCHANGED <<L1, L2, is_left, curr_x, curr_y, drift, res>>

\* Lines 136-157, for the target string split into parts.  The target and
\* the current position are whole numbers; the samples of the path between
\* them carry rounding errors.
Move(parts) ==
    IF ValueError(parts[1]) THEN FormatError
    ELSE IF Len(parts) < 2 THEN Uncaught("IndexError")      \* parts[1] of line 137
    ELSE IF ValueError(parts[2]) THEN FormatError
    ELSE LET x == float(parts[1])
             y == float(parts[2])
             r == inverse_kinematics(x, y, L1, L2, is_left, 0)
         IN  IF r = ZeroDivisionError THEN Uncaught("ZeroDivisionError")
             ELSE IF r = None THEN Reject(x, y, "OutOfRange")
             ELSE \E e \in Signs :
                    IF ~check_path(curr_x, curr_y, x * Steps, y * Steps,
                                   L1 * Steps, L2 * Steps, e)
                    THEN Reject(x, y, "PathBlocked")
                    ELSE Begin(x, y)

\* Line 132: the user answers the movement dialog.
Ask ==
    /\ pc = "prompt"
    /\ \E s \in TargetStrings : target_str' = s
    /\ pc' = "asked"
    /\ outcome' = "Asked"
    /\ UNCHANGED <<L1, L2, is_left, curr_x, curr_y, drift, res, nx, ny, dx, dy,
                   iter, poses, call, ret>>

\* Lines 133-157: the answer is handled, up to the animation.
Handle ==
    /\ pc = "asked"
    /\ IF target_str = <<>>
       THEN \* if not target_str: break, then root.destroy()
            /\ pc' = "closed"
            /\ outcome' = "Exit"
            /\ UNCHANGED <<L1, L2, is_left, curr_x, curr_y, drift, res, target_str,
                           nx, ny, dx, dy, iter, poses>>
       ELSE Move(split(target_str))
    /\ UNCHANGED <<call, ret>>

\* Lines 151-152 and 160-161: a delta of k/40 with k a multiple of 5 is a
\* float, and adding it is exact; any other delta is rounded, and the
\* waypoint accumulates a rounding error.
Drifts(ddx, ddy) == IF ddx % 5 = 0 /\ ddy % 5 = 0 THEN {0} ELSE Signs

\* The exact point (x, y) lies on one of the circles of the test of line 26,
\* where a rounding error decides the test.
OnCircle(x, y, l1, l2) ==
    LET d2 == x * x + y * y
    IN  d2 = (l1 + l2) * (l1 + l2) \/ d2 = (l1 - l2) * (l1 - l2)

\* The sign of the rounding error of the waypoint (x, y) reached in pass
\* number n.  It is recorded where something depends on it: on a circle of
\* the range test, and after the last pass, when line 179 replaces the
\* accumulated position.  Elsewhere it is left at 0.
WaypointDrifts(x, y, n) ==
    IF OnCircle(x, y, L1 * Steps, L2 * Steps) \/ n = Steps
    THEN Drifts(dx, dy) ELSE {0}

\* The loop with a failed waypoint ending the move where it stands.
AnimateStep_abort ==
    /\ pc = "animate"
    /\ iter < Steps
    /\ curr_x' = curr_x + dx
    /\ curr_y' = curr_y + dy
    /\ drift' \in WaypointDrifts(curr_x', curr_y', iter + 1)
    /\ res' = inverse_kinematics(curr_x', curr_y', L1 * Steps, L2 * Steps,
                                 is_left, drift')
    /\ IF res' = None
       THEN /\ BackToPrompt("Moved")
            /\ UNCHANGED <<L1, L2, is_left, call, ret>>
       ELSE /\ poses' = poses + 1
            /\ iter' = iter + 1
            /\ UNCHANGED <<pc, L1, L2, is_left, target_str, nx, ny, dx, dy,
                           outcome, call, ret>>

\* Lines 160-177: one pass of the animation loop.  The waypoint is in ticks,
\* so the lengths are passed in ticks too.
AnimateStep ==
    /\ pc = "animate"
    /\ iter < Steps
    /\ curr_x' = curr_x + dx
    /\ curr_y' = curr_y + dy
    /\ drift' \in WaypointDrifts(curr_x', curr_y', iter + 1)
    /\ res' = inverse_kinematics(curr_x', curr_y', L1 * Steps, L2 * Steps,
                                 is_left, drift')
    /\ poses' = IF res' # None THEN poses + 1 ELSE poses
    /\ iter' = iter + 1
    /\ UNCHANGED <<pc, L1, L2, is_left, target_str, nx, ny, dx, dy, outcome, call, ret>>

\* The end of the loop without line 179: the accumulated position is kept.
Snap_missing ==
    /\ pc = "animate"
    /\ iter = Steps
    /\ BackToPrompt("Moved")
    /\ UNCHANGED <<L1, L2, is_left, curr_x, curr_y, drift, res, call, ret>>

\* Line 179, after the last pass: curr_x, curr_y = nx, ny, whole numbers.
Snap ==
    /\ pc = "animate"
    /\ iter = Steps
    /\ curr_x' = nx * Steps
    /\ curr_y' = ny * Steps
    /\ drift' = 0
    /\ BackToPrompt("Moved")
    /\ UNCHANGED <<L1, L2, is_left, res, call, ret>>

Next == Setup \/ Ask \/ Handle \/ AnimateStep \/ Snap

Spec == Init /\ [][Next]_vars

\* The animation loop and line 179 run without waiting for anything; the
\* dialogs wait for the user.
FairSpec == Spec /\ WF_vars(AnimateStep) /\ WF_vars(Snap)

(* ------------------------------------------- the two functions on their own *)

\* The session variables do not move in the function-level specifications.
InitSession ==
    /\ pc = "call"
    /\ L1 = 0 /\ L2 = 0 /\ is_left = FALSE
    /\ curr_x = 0 /\ curr_y = 0 /\ drift = 0
    /\ res = None
    /\ target_str = <<>>
    /\ nx = 0 /\ ny = 0 /\ dx = 0 /\ dy = 0
    /\ iter = 0 /\ poses = 0
    /\ outcome = "none"

IKCalls ==
    [fn : {"inverse_kinematics"},
     x : (0 - MaxCoordIK)..MaxCoordIK, y : (0 - MaxCoordIK)..MaxCoordIK,
     l1 : (0 - 1)..MaxLenIK, l2 : (0 - 1)..MaxLenIK,
     left_mode : BOOLEAN]

InitIK == InitSession /\ call \in IKCalls /\ ret = Idle

\* A call of inverse_kinematics (lines 18-48) returns.
ReturnIK ==
    /\ pc = "call"
    /\ call.fn = "inverse_kinematics"
    /\ ret' = inverse_kinematics(call.x, call.y, call.l1, call.l2, call.left_mode, 0)
    /\ pc' = "return"
    /\ UNCHANGED <<L1, L2, is_left, curr_x, curr_y, drift, res, target_str, nx, ny,
                   dx, dy, iter, poses, outcome, call>>

SpecIK == InitIK /\ [][ReturnIK]_vars

\* The move of the scenario l1 = l2 = 100, (150, 0) -> (-150, 0).
ThroughOrigin ==
    [fn |-> "check_path", x1 |-> 150, y1 |-> 0, x2 |-> 0 - 150, y2 |-> 0,
     l1 |-> 100, l2 |-> 100]

PathCalls ==
    [fn : {"check_path"},
     x1 : (0 - MaxCoordPath)..MaxCoordPath, y1 : (0 - MaxCoordPath)..MaxCoordPath,
     x2 : (0 - MaxCoordPath)..MaxCoordPath, y2 : (0 - MaxCoordPath)..MaxCoordPath,
     l1 : 0..MaxLenPath, l2 : 0..MaxLenPath]
    \cup {ThroughOrigin}

InitPath == InitSession /\ call \in PathCalls /\ ret = Idle

\* A call of check_path (lines 50-65) returns; the arguments are whole
\* units, passed on in ticks.  ret.e is the sign of the rounding error of the
\* inexact samples.
ReturnPath ==
    /\ pc = "call"
    /\ call.fn = "check_path"
    /\ \E e \in Signs :
         ret' = [tag |-> "bool", e |-> e,
                 value |-> check_path(call.x1 * Steps, call.y1 * Steps,
                                      call.x2 * Steps, call.y2 * Steps,
                                      call.l1 * Steps, call.l2 * Steps, e)]
    /\ pc' = "return"
    /\ UNCHANGED <<L1, L2, is_left, curr_x, curr_y, drift, res, target_str, nx, ny,
                   dx, dy, iter, poses, outcome, call>>

SpecPath == InitPath /\ [][ReturnPath]_vars

(* ----------------------------------------------------------------- claims *)

\* A target string has at least two comma-separated fields, the first two of
\* them numbers.
TwoNumbers(s) ==
    \E k \in 1..Len(s) :
        /\ s[k] = ","
        /\ \A j \in 1..(k - 1) : s[j] # ","
        /\ ~ValueError(SubSeq(s, 1, k - 1))
        /\ \E m \in k..Len(s) :
              /\ \A j \in (k + 1)..m : s[j] # ","
              /\ m = Len(s) \/ s[m + 1] = ","
              /\ ~ValueError(SubSeq(s, k + 1, m))

\* The first two fields of a target string.
Field1(s) == SubSeq(s, 1, (CHOOSE k \in 1..Len(s) : s[k] = "," /\ \A j \in 1..(k - 1) : s[j] # ",") - 1)
Field2(s) ==
    LET k == CHOOSE k \in 1..Len(s) : s[k] = "," /\ \A j \in 1..(k - 1) : s[j] # ","
        m == CHOOSE m \in k..Len(s) :
                /\ \A j \in (k + 1)..m : s[j] # ","
                /\ m = Len(s) \/ s[m + 1] = ","
    IN  SubSeq(s, k + 1, m)

\* The point (x, y), in ticks, lies in the closed annulus of lengths l1, l2
\* (in ticks) and is not the origin.
InAnnulus(x, y, l1, l2) ==
    LET d2 == x * x + y * y
    IN  /\ l1 + l2 >= 0
        /\ d2 <= (l1 + l2) * (l1 + l2)
        /\ d2 >= (l1 - l2) * (l1 - l2)
        /\ d2 > 0

\* C1: a move rejected as OutOfRange (the target is outside the annulus) or
\* as PathBlocked leaves the position, the lengths and the handedness as
\* they were, and the loop prompts for the next request.
C1_RejectedMoveChangesNothing ==
    [][ (/\ pc = "asked"
         /\ TwoNumbers(target_str)
         /\ \/ ~InAnnulus(float(Field1(target_str)), float(Field2(target_str)), L1, L2)
            \/ outcome' = "PathBlocked")
        => (/\ pc' = "prompt"
            /\ outcome' \in {"OutOfRange", "PathBlocked"}
            /\ curr_x' = curr_x /\ curr_y' = curr_y /\ drift' = drift
            /\ L1' = L1 /\ L2' = L2 /\ is_left' = is_left) ]_vars

C1_Witness == pc = "prompt" /\ outcome = "PathBlocked"

\* C2: every non-empty target string that is not two comma-separated numbers
\* is reported as a format error, the position stays, and the loop prompts
\* again.
C2_MalformedInputReported ==
    [][ (pc = "asked" /\ target_str # <<>> /\ ~TwoNumbers(target_str))
        => (/\ pc' = "prompt"
            /\ outcome' = "IncorrectFormat"
            /\ curr_x' = curr_x /\ curr_y' = curr_y) ]_vars

\* C3: with a link length <= 0 no session is started: the movement loop is
\* never entered.
C3_NonPositiveLengthFailsSetup ==
    (L1 <= 0 \/ L2 <= 0) => pc \notin {"prompt", "asked", "animate"}

\* C4: for l1, l2 > 0, inverse_kinematics returns an elbow exactly when
\* |l1 - l2| <= dist <= l1 + l2 and dist > 0.
C4_ReachableIffInAnnulus ==
    (pc = "return" /\ call.fn = "inverse_kinematics" /\ call.l1 > 0 /\ call.l2 > 0)
    => ((ret.tag = "elbow") <=> InAnnulus(call.x, call.y, call.l1, call.l2))

\* A target on the outer boundary (dist = l1 + l2), off the axes, is solved.
C4_Witness ==
    /\ pc = "return" /\ call.fn = "inverse_kinematics"
    /\ call.l1 > 0 /\ call.l2 > 0
    /\ call.x # 0 /\ call.y # 0
    /\ call.x * call.x + call.y * call.y = (call.l1 + call.l2) * (call.l1 + call.l2)
    /\ ret.tag = "elbow"

\* Sample i of the segment of a check_path call, in ticks, and the sign of
\* its rounding error.
SampleX(c, i) == c.x1 * Steps + (c.x2 - c.x1) * i
SampleY(c, i) == c.y1 * Steps + (c.y2 - c.y1) * i

\* The computed distance of sample i is strictly less than |l1 - l2| - 1.
SampleInside(c, i, e) ==
    LET d2 == SampleX(c, i) * SampleX(c, i) + SampleY(c, i) * SampleY(c, i)
        lim == (abs(c.l1 - c.l2) - 1) * Steps
        err == IF i % 5 = 0 THEN 0 ELSE e
    IN  lim > 0 /\ (d2 < lim * lim \/ (d2 = lim * lim /\ err < 0))

\* C5: check_path returns False exactly when one of the 41 sample points
\* i = 0..40 has computed distance strictly less than |l1 - l2| - 1.
C5_BlockedIffSampleInside ==
    (pc = "return" /\ call.fn = "check_path")
    => ((ret.value = FALSE) <=> \E i \in 0..Steps : SampleInside(call, i, ret.e))

\* A path whose end points are both clear and that is blocked in between.
C5_Witness ==
    /\ pc = "return" /\ call.fn = "check_path"
    /\ ret.value = FALSE
    /\ ~SampleInside(call, 0, ret.e) /\ ~SampleInside(call, Steps, ret.e)

\* C6, as claimed: with l1 = l2 = 100 the path check of the move from
\* (150, 0) to (-150, 0) returns false.
C6_ThroughOriginBlocked ==
    (pc = "return" /\ call = ThroughOrigin) => ret.value = FALSE

\* C6, amended: with l1 = l2 = 100 the path check of the move from (150, 0)
\* to (-150, 0) returns true.
C6_ThroughOriginClear ==
    (pc = "return" /\ call = ThroughOrigin) => ret.value = TRUE

C6_Witness == pc = "return" /\ call = ThroughOrigin

\* C7: when the animation of an accepted move to (nx, ny) has finished and
\* the loop prompts again, the position is (nx, ny) exactly, without drift.
C7_SnapToTarget ==
    [][ (pc = "animate" /\ pc' = "prompt")
        => (curr_x' = nx * Steps /\ curr_y' = ny * Steps /\ drift' = 0) ]_vars

\* A finished move whose last waypoint could not be solved.
C7_Witness == pc = "prompt" /\ outcome = "Moved" /\ res = None

\* (a + b*sqrt(r)) = c, for integers a, b, c and r >= 0.
AlgEq(a, b, r, c) ==
    IF b = 0 \/ r = 0 THEN a = c
    ELSE (c - a) * b >= 0 /\ (c - a) * (c - a) = b * b * r

\* den^2 times the squared distance of the elbow el from (x, y), as
\* a + b*sqrt(rad), equals den^2 * l^2.
ElbowAtDistance(el, x, y, l) ==
    LET ux == el.elbow_x.a - x * el.den
        uy == el.elbow_y.a - y * el.den
        vx == el.elbow_x.b
        vy == el.elbow_y.b
        rad == el.rad_p * el.rad_q
    IN  AlgEq(ux * ux + uy * uy + (vx * vx + vy * vy) * rad,
              2 * (ux * vx + uy * vy), rad, el.den * el.den * l * l)

\* C8: for l1, l2 > 0, an elbow returned by inverse_kinematics lies at
\* distance l1 from the origin and at distance l2 from the target.
C8_ElbowRoundTrip ==
    (pc = "return" /\ ret.tag = "elbow" /\ call.l1 > 0 /\ call.l2 > 0)
    => /\ ret.rad_p >= 0 /\ ret.rad_q >= 0 /\ ret.den > 0
       /\ ElbowAtDistance(ret, 0, 0, call.l1)
       /\ ElbowAtDistance(ret, call.x, call.y, call.l2)

\* A bent arm (alpha # 0) reaching a target off the axes.
C8_Witness ==
    /\ pc = "return" /\ ret.tag = "elbow"
    /\ call.l1 > 0 /\ call.l2 > 0
    /\ call.x # 0 /\ call.y # 0
    /\ ret.rad_p * ret.rad_q > 0

\* C9: an accepted move makes exactly 40 passes, each advancing the position
\* by (dx, dy) = ((nx - cx)/40, (ny - cy)/40) and emitting a pose only if the
\* waypoint is solved; no pass ends the move, and after the 40th the position
\* is set to the target.
C9_StepInvariant ==
    pc = "animate"
    => /\ 0 <= poses /\ poses <= iter /\ iter <= Steps
       /\ curr_x = nx * Steps - (Steps - iter) * dx
       /\ curr_y = ny * Steps - (Steps - iter) * dy

C9_StepAction ==
    pc = "animate"
    => IF iter < Steps
       THEN /\ pc' = "animate"
            /\ iter' = iter + 1
            /\ curr_x' = curr_x + dx /\ curr_y' = curr_y + dy
            /\ dx' = dx /\ dy' = dy /\ nx' = nx /\ ny' = ny
            /\ poses' = IF res' = None THEN poses ELSE poses + 1
       ELSE /\ pc' = "prompt"
            /\ outcome' = "Moved"
            /\ curr_x' = nx * Steps /\ curr_y' = ny * Steps

C9_FortyStepsThenDone ==
    /\ []C9_StepInvariant
    /\ [](pc = "animate" => ENABLED (AnimateStep \/ Snap))
    /\ [][C9_StepAction]_vars

\* C9, as a liveness property of the loop running on: every accepted move
\* reaches the prompt with the move completed.
C9_MoveCompletes == (pc = "animate") ~> (pc = "prompt" /\ outcome = "Moved")

\* All 40 passes are made although some waypoint was not solved.
C9_Witness == pc = "animate" /\ iter = Steps /\ poses < Steps

\* C10: whenever the loop waits for a request, the position is a point at
\* which inverse_kinematics succeeds.
C10_PromptPositionReachable ==
    pc \in {"prompt", "asked"}
    => /\ drift = 0
       /\ InAnnulus(curr_x, curr_y, L1 * Steps, L2 * Steps)

\* After an accepted move the arm rests on the inner boundary.
C10_Witness ==
    /\ pc = "prompt" /\ outcome = "Moved"
    /\ L1 # L2
    /\ curr_x * curr_x + curr_y * curr_y = (L1 - L2) * (L1 - L2) * Steps * Steps

====
